---- MODULE Spec2Model ----
(***************************************************************************)
(* Model of app_planificador.py: the time parser, the catalog             *)
(* construction, the conflict checker, the idle-time scorer, the          *)
(* combination search engine (find_schedules) and the elective optimizer  *)
(* loop of run_app.                                                       *)
(***************************************************************************)
EXTENDS Integers, Sequences, FiniteSets, TLC

VARIABLES
    pc,                  \* position of the run: which step comes next
    file,                \* the CSV file handed to load_and_preprocess_data
    df_processed,        \* the catalog: the DataFrame load_and_preprocess_data returns
    schedule_in,         \* the list handed to check_conflict / calculate_gaps
    schedule,            \* the same list object after the in-place sort
    conflict,            \* value returned by check_conflict
    gaps,                \* value returned by calculate_gaps
    subject_list,        \* find_schedules: the requested subject names
    turno_filter,        \* find_schedules: 'Mixto', 'Matutino (M)' or 'Tarde (T)'
    result,              \* find_schedules: the returned triple
    mandatory_subjects,  \* run_app: the selected subjects of semesters 1-9
    num_to_select,       \* run_app: optativa_config["count"]
    top_flexible_optatives,  \* run_app: the electives the optimizer combines
    optativa_combinations,   \* run_app: list(combinations(top, num_to_select))
    processed,           \* run_app: number of combinations the loop has been through
    best_overall_schedule,   \* run_app: best (score, combination) so far, or None
    best_overall_score,  \* run_app: its score, float('inf') at first
    searches             \* history: <<subject list, returned schedules>> per call

schedVars == <<schedule_in, schedule, conflict, gaps>>
loadVars == <<file, df_processed>>
searchVars == <<subject_list, turno_filter, result>>
optVars == <<mandatory_subjects, num_to_select, top_flexible_optatives,
             optativa_combinations, processed, best_overall_schedule, best_overall_score,
             searches>>
vars == <<pc, loadVars, schedVars, searchVars, optVars>>

(***************************************************************************)
(* Python values                                                           *)
(***************************************************************************)
\* Python's None where a list or a tuple is expected: a value that is no list
None == [i \in {0} |-> 0]
\* Python's None where a string is expected (error_type)
NoErrorType == "None"

\* the weekday columns, in the order of the list `days`
days == <<"Lunes", "Martes", "Miercoles", "Jueves", "Viernes", "Sabado">>

\* str comparison of the weekday names, as the sort key (x['Dia'], ...) uses it
DiaOrd(d) ==
    CASE d = "Jueves" -> 1
      [] d = "Lunes" -> 2
      [] d = "Martes" -> 3
      [] d = "Miercoles" -> 4
      [] d = "Sabado" -> 5
      [] d = "Viernes" -> 6

(***************************************************************************)
(* parse_time_to_minutes                                                   *)
(***************************************************************************)
\* a missing cell (pandas NaN): one token that is no character
NaN == <<"NaN">>

Digits == {"0", "1", "2", "3", "4", "5", "6", "7", "8", "9"}

DigitVal(c) ==
    CASE c = "0" -> 0 [] c = "1" -> 1 [] c = "2" -> 2 [] c = "3" -> 3
      [] c = "4" -> 4 [] c = "5" -> 5 [] c = "6" -> 6 [] c = "7" -> 7
      [] c = "8" -> 8 [] c = "9" -> 9

\* time_str.replace(" ", "")
RECURSIVE RemoveSpaces(_)
RemoveSpaces(str) ==
    IF str = <<>> THEN <<>>
    ELSE IF Head(str) = " " THEN RemoveSpaces(Tail(str))
    ELSE <<Head(str)>> \o RemoveSpaces(Tail(str))

IsDigitAt(str, i) == i <= Len(str) /\ str[i] \in Digits

\* (\d{1,2}),(\d{2}) anchored at i with a two-digit first group (tried first)
Match2At(str, i) ==
    /\ IsDigitAt(str, i) /\ IsDigitAt(str, i + 1)
    /\ i + 2 <= Len(str) /\ str[i + 2] = ","
    /\ IsDigitAt(str, i + 3) /\ IsDigitAt(str, i + 4)

\* the same with a one-digit first group (tried after backtracking)
Match1At(str, i) ==
    /\ IsDigitAt(str, i)
    /\ i + 1 <= Len(str) /\ str[i + 1] = ","
    /\ IsDigitAt(str, i + 2) /\ IsDigitAt(str, i + 3)

\* re.findall(r'(\d{1,2}),(\d{2})', str) scanning from position i: the
\* non-overlapping matches, left to right, each as <<int(hours), int(minutes)>>
RECURSIVE FindAllFrom(_, _)
FindAllFrom(str, i) ==
    IF i > Len(str) THEN <<>>
    ELSE IF Match2At(str, i)
    THEN << <<10 * DigitVal(str[i]) + DigitVal(str[i + 1]),
              10 * DigitVal(str[i + 3]) + DigitVal(str[i + 4])>> >>
            \o FindAllFrom(str, i + 5)
    ELSE IF Match1At(str, i)
    THEN << <<DigitVal(str[i]),
              10 * DigitVal(str[i + 2]) + DigitVal(str[i + 3])>> >>
            \o FindAllFrom(str, i + 4)
    ELSE FindAllFrom(str, i + 1)

\* parse_time_to_minutes(time_str): <<start, end>> in minutes, or None
parse_time_to_minutes(time_str) ==
    IF time_str = NaN THEN None
    ELSE LET parts == FindAllFrom(RemoveSpaces(time_str), 1)
         IN IF Len(parts) = 2
            THEN <<parts[1][1] * 60 + parts[1][2], parts[2][1] * 60 + parts[2][2]>>
            ELSE None

(***************************************************************************)
(* load_and_preprocess_data                                                *)
(***************************************************************************)
required_cols == {"Semestre", "clv_Mat", "Materia", "Turno", "Grupo", "Salon"}
                     \cup {days[d] : d \in DOMAIN days}

\* df.melt(...): one row per CSV row and weekday, all rows of the first
\* weekday first, from weekday number d on
RECURSIVE Melt(_, _)
Melt(rows, d) ==
    IF d > Len(days) THEN <<>>
    ELSE [i \in 1..Len(rows) |->
             [Semestre |-> rows[i].Semestre, Materia |-> rows[i].Materia,
              Grupo |-> rows[i].Grupo, Turno |-> rows[i].Turno,
              Dia |-> days[d], Horario_str |-> rows[i].cells[days[d]]]]
         \o Melt(rows, d + 1)

\* the parse, the dropna and the final column selection, row by row
RECURSIVE ParseAndDrop(_)
ParseAndDrop(tidy) ==
    IF tidy = <<>> THEN <<>>
    ELSE LET r == Head(tidy)
             parsed == parse_time_to_minutes(r.Horario_str)
         IN (IF parsed = None THEN <<>>
             ELSE <<[Semestre |-> r.Semestre, Materia |-> r.Materia,
                     Grupo |-> r.Grupo, Turno |-> r.Turno, Dia |-> r.Dia,
                     Inicio_Min |-> parsed[1], Fin_Min |-> parsed[2]]>>)
            \o ParseAndDrop(Tail(tidy))

\* load_and_preprocess_data(filepath): the catalog, or None on a read error
\* or a missing column
load_and_preprocess_data(f) ==
    IF ~f.readable THEN None
    ELSE IF required_cols \ f.columns # {} THEN None
    ELSE ParseAndDrop(Melt(f.rows, 1))

(***************************************************************************)
(* Catalog construction applied to bounded CSV files                       *)
(***************************************************************************)
\* most CSV rows of a file
MaxCsvRows == 2

\* the cells of the weekday columns:
\*   "8,00 - 9,30"  (480, 570)
\*   "09,00-10,00"  (540, 600)
\*   "10,00 - 9,00"  (600, 540): the end before the start
\*   "9,00-9,00"  (540, 540): an empty interval
\*   "23,00 - 25,30"  (1380, 1530): past midnight
\*   "8,00"  one pair only: rejected
\*   "8,00-9,00-10,00"  three pairs: rejected
\*   "garbage"  no pair: rejected
LoadCells ==
    {NaN,
     <<"8", ",", "0", "0", " ", "-", " ", "9", ",", "3", "0">>,
     <<"0", "9", ",", "0", "0", "-", "1", "0", ",", "0", "0">>,
     <<"1", "0", ",", "0", "0", " ", "-", " ", "9", ",", "0", "0">>,
     <<"9", ",", "0", "0", "-", "9", ",", "0", "0">>,
     <<"2", "3", ",", "0", "0", " ", "-", " ", "2", "5", ",", "3", "0">>,
     <<"8", ",", "0", "0">>,
     <<"8", ",", "0", "0", "-", "9", ",", "0", "0", "-", "1", "0", ",", "0", "0">>,
     <<"g", "a", "r", "b", "a", "g", "e">>}

\* CSV rows: one group of one subject, meeting on Lunes and/or Martes
LoadRows ==
    {[Semestre |-> 1, Materia |-> "A", Grupo |-> 1, Turno |-> "M",
      cells |-> [d \in {days[k] : k \in DOMAIN days} |->
                    IF d = "Lunes" THEN c1 ELSE IF d = "Martes" THEN c2 ELSE NaN]] :
        c1 \in LoadCells, c2 \in LoadCells}

LoadFiles ==
    {[readable |-> FALSE, columns |-> {}, rows |-> <<>>],
     [readable |-> TRUE, columns |-> required_cols \ {"Turno"}, rows |-> <<>>]}
    \cup {[readable |-> TRUE, columns |-> required_cols, rows |-> rows] :
             rows \in UNION {[1..k -> LoadRows] : k \in 0..MaxCsvRows}}

IdleSched ==
    /\ schedule_in = <<>>
    /\ schedule = <<>>
    /\ conflict = None
    /\ gaps = None

IdleSearch ==
    /\ subject_list = <<>>
    /\ turno_filter = "Mixto"
    /\ result = None

\* float('inf'): above every score
Inf == 1000000

IdleOpt ==
    /\ mandatory_subjects = <<>>
    /\ num_to_select = 1
    /\ top_flexible_optatives = <<>>
    /\ optativa_combinations = <<>>
    /\ processed = 0
    /\ best_overall_schedule = None
    /\ best_overall_score = Inf
    /\ searches = <<>>

InitLoad ==
    /\ pc = "start"
    /\ file \in LoadFiles
    /\ df_processed = None
    /\ IdleSched
    /\ IdleSearch
    /\ IdleOpt

\* df_processed = load_and_preprocess_data('Horario.csv')
Load ==
    /\ pc = "start"
    /\ df_processed' = load_and_preprocess_data(file)
    /\ pc' = IF df_processed' = None THEN "load_failed" ELSE "loaded"
    /\ UNCHANGED <<file, schedVars, searchVars, optVars>>

NextLoad == Load

SpecLoad == InitLoad /\ [][NextLoad]_vars

\* C10: every session of a catalog built from any input rows has
\* end_minute > start_minute, 0 <= start_minute < 1440 and end_minute <= 1440;
\* cells the parser accepts that violate this never become sessions.
C10_SessionsWellFormed ==
    pc = "loaded"
        => \A i \in DOMAIN df_processed :
               /\ df_processed[i].Fin_Min > df_processed[i].Inicio_Min
               /\ 0 <= df_processed[i].Inicio_Min
               /\ df_processed[i].Inicio_Min < 1440
               /\ df_processed[i].Fin_Min <= 1440

(***************************************************************************)
(* list.sort(key=lambda x: (x['Dia'], x['Inicio_Min'])): a stable sort     *)
(***************************************************************************)
KeyLeq(a, b) ==
    \/ DiaOrd(a.Dia) < DiaOrd(b.Dia)
    \/ DiaOrd(a.Dia) = DiaOrd(b.Dia) /\ a.Inicio_Min <= b.Inicio_Min

RECURSIVE InsertByKey(_, _)
\* x goes after every element whose key is <= its own: equal keys keep input order
InsertByKey(x, s) ==
    IF s = <<>> THEN <<x>>
    ELSE IF KeyLeq(s[Len(s)], x) THEN Append(s, x)
    ELSE Append(InsertByKey(x, SubSeq(s, 1, Len(s) - 1)), s[Len(s)])

RECURSIVE SortByDiaInicio(_)
SortByDiaInicio(s) ==
    IF s = <<>> THEN <<>>
    ELSE InsertByKey(s[Len(s)], SortByDiaInicio(SubSeq(s, 1, Len(s) - 1)))

(***************************************************************************)
(* check_conflict and calculate_gaps                                       *)
(***************************************************************************)
\* the list as the function leaves it: untouched when empty, sorted otherwise
SortedInPlace(s) == IF s = <<>> THEN s ELSE SortByDiaInicio(s)

\* check_conflict comparing with <= : back-to-back sessions would be flagged
check_conflict_backtoback(s) ==
    IF s = <<>> THEN FALSE
    ELSE LET sorted == SortByDiaInicio(s)
         IN \E i \in 1..(Len(sorted) - 1) :
                /\ sorted[i].Dia = sorted[i + 1].Dia
                /\ sorted[i + 1].Inicio_Min <= sorted[i].Fin_Min

\* check_conflict(schedule): TRUE iff some adjacent pair of the sorted list
\* shares its day and the second starts before the first ends
check_conflict(s) ==
    IF s = <<>> THEN FALSE
    ELSE LET sorted == SortByDiaInicio(s)
         IN \E i \in 1..(Len(sorted) - 1) :
                /\ sorted[i].Dia = sorted[i + 1].Dia
                /\ sorted[i + 1].Inicio_Min < sorted[i].Fin_Min

\* GapLoop without the same-day test
RECURSIVE GapLoop_anyday(_, _)
GapLoop_anyday(sorted, n) ==
    IF n = 0 THEN 0
    ELSE LET class1 == sorted[n]
             class2 == sorted[n + 1]
             gap == class2.Inicio_Min - class1.Fin_Min
         IN GapLoop_anyday(sorted, n - 1) + (IF gap > 0 THEN gap ELSE 0)

RECURSIVE GapLoop(_, _)
\* the for loop of calculate_gaps over i = 1 .. n: total_gap after n iterations
GapLoop(sorted, n) ==
    IF n = 0 THEN 0
    ELSE LET class1 == sorted[n]
             class2 == sorted[n + 1]
             gap == class2.Inicio_Min - class1.Fin_Min
         IN GapLoop(sorted, n - 1)
              + (IF class1.Dia = class2.Dia /\ gap > 0 THEN gap ELSE 0)

\* calculate_gaps without its internal sort
calculate_gaps_nosort(s) ==
    IF s = <<>> THEN 0
    ELSE GapLoop(s, Len(s) - 1)

\* calculate_gaps(schedule)
calculate_gaps(s) ==
    IF s = <<>> THEN 0
    ELSE GapLoop(SortByDiaInicio(s), Len(s) - 1)

(***************************************************************************)
(* The two list functions applied to bounded lists of sessions             *)
(***************************************************************************)
\* longest list handed to check_conflict / calculate_gaps
MaxLen == 3

SchedDias == {"Lunes", "Jueves"}
\* (Inicio_Min, Fin_Min) pairs: six well-formed ones over four instants, one
\* empty and one reversed pair (the parser returns such pairs unmodified)
SchedTimes ==
    {<<480, 540>>, <<480, 600>>, <<480, 660>>, <<540, 600>>, <<540, 660>>,
     <<600, 660>>, <<540, 540>>, <<600, 540>>}
SchedSessions ==
    {[Dia |-> d, Inicio_Min |-> t[1], Fin_Min |-> t[2]] : d \in SchedDias, t \in SchedTimes}

SeqsUpTo(S, n) == UNION {[1..k -> S] : k \in 0..n}

IdleLoad ==
    /\ file = None
    /\ df_processed = None

InitSched ==
    /\ pc = "list"
    /\ IdleLoad
    /\ IdleSearch
    /\ IdleOpt
    /\ schedule_in \in SeqsUpTo(SchedSessions, MaxLen)
    /\ schedule = schedule_in
    /\ conflict = None
    /\ gaps = None

\* a call check_conflict(schedule): sorts the list in place, returns the flag
CheckConflict ==
    /\ pc = "list"
    /\ conflict' = check_conflict(schedule)
    /\ schedule' = SortedInPlace(schedule)
    /\ pc' = "checked"
    /\ UNCHANGED <<schedule_in, gaps, loadVars, searchVars, optVars>>

\* a call calculate_gaps(schedule), before or after check_conflict
CalculateGaps ==
    /\ pc \in {"list", "checked"}
    /\ gaps' = calculate_gaps(schedule)
    /\ schedule' = SortedInPlace(schedule)
    /\ pc' = IF pc = "list" THEN "scored" ELSE "done"
    /\ UNCHANGED <<schedule_in, conflict, loadVars, searchVars, optVars>>

NextSched == CheckConflict \/ CalculateGaps

SpecSched == InitSched /\ [][NextSched]_vars

(***************************************************************************)
(* find_schedules                                                          *)
(***************************************************************************)
\* TurnoOk that does not recognise the afternoon filter
TurnoOk_afternoon_unfiltered(r, turno) ==
    IF turno = "Matutino (M)" THEN r.Turno = "M"
    ELSE TRUE

\* the rows a shift filter keeps
TurnoOk(r, turno) ==
    IF turno = "Matutino (M)" THEN r.Turno = "M"
    ELSE IF turno = "Tarde (T)" THEN r.Turno = "T"
    ELSE TRUE

Range(s) == {s[i] : i \in DOMAIN s}

\* Series.unique(): the distinct values in order of first appearance
RECURSIVE Unique(_)
Unique(s) ==
    IF s = <<>> THEN <<>>
    ELSE LET u == Unique(SubSeq(s, 1, Len(s) - 1))
         IN IF s[Len(s)] \in Range(u) THEN u ELSE Append(u, s[Len(s)])

\* df_processed['Materia'].unique(), used for membership only
materias_en_csv(df) == {df[i].Materia : i \in DOMAIN df}

\* materias_invalidas that stops at the first unknown name
materias_invalidas_first(df, subjects) ==
    LET todas == SelectSeq(subjects, LAMBDA name : name \notin materias_en_csv(df))
    IN IF todas = <<>> THEN <<>> ELSE <<todas[1]>>

materias_invalidas(df, subjects) ==
    SelectSeq(subjects, LAMBDA name : name \notin materias_en_csv(df))

\* df_subject_filtered['Grupo'].unique() for one subject
\* grupos_unicos without unique(): one group per filtered row
grupos_unicos_per_row(df, subject_name, turno) ==
    LET df_subject_filtered ==
            SelectSeq(df, LAMBDA r : r.Materia = subject_name /\ TurnoOk(r, turno))
    IN [i \in DOMAIN df_subject_filtered |-> df_subject_filtered[i].Grupo]

grupos_unicos(df, subject_name, turno) ==
    LET df_subject_filtered ==
            SelectSeq(df, LAMBDA r : r.Materia = subject_name /\ TurnoOk(r, turno))
    IN Unique([i \in DOMAIN df_subject_filtered |-> df_subject_filtered[i].Grupo])

\* the rows of one group of one subject, whatever their shift
clases_del_grupo(df, subject_name, grupo) ==
    SelectSeq(df, LAMBDA r : r.Materia = subject_name /\ r.Grupo = grupo)

\* subject_options for one subject: one option per distinct group
subject_options(df, subject_name, turno) ==
    LET grupos == grupos_unicos(df, subject_name, turno)
    IN [k \in DOMAIN grupos |->
           [Materia |-> subject_name, Grupo |-> grupos[k],
            Clases |-> clases_del_grupo(df, subject_name, grupos[k])]]

materias_sin_grupos_en_turno(df, subjects, turno) ==
    SelectSeq(subjects, LAMBDA name : grupos_unicos(df, name, turno) = <<>>)

\* all_subject_groups as the loop leaves it: the subjects without a group
\* are skipped (continue)
RECURSIVE all_subject_groups(_, _, _)
all_subject_groups(df, subjects, turno) ==
    IF subjects = <<>> THEN <<>>
    ELSE LET options == subject_options(df, Head(subjects), turno)
         IN (IF options = <<>> THEN <<>> ELSE <<options>>)
            \o all_subject_groups(df, Tail(subjects), turno)

RECURSIVE ConcatAll(_)
ConcatAll(ss) == IF ss = <<>> THEN <<>> ELSE Head(ss) \o ConcatAll(Tail(ss))

\* itertools.product(*lists): the last list varies fastest
RECURSIVE Product(_)
Product(lists) ==
    IF lists = <<>> THEN << <<>> >>
    ELSE LET rest == Product(Tail(lists))
             first == Head(lists)
         IN ConcatAll([k \in DOMAIN first |->
                          [j \in DOMAIN rest |-> <<first[k]>> \o rest[j]]])

\* full_schedule: the classes of the chosen groups, one group after the other
full_schedule(combination) ==
    ConcatAll([k \in DOMAIN combination |-> combination[k].Clases])

\* ValidateCombinations without the conflict check
RECURSIVE ValidateCombinations_keepflagged(_)
ValidateCombinations_keepflagged(all_combinations) ==
    IF all_combinations = <<>> THEN <<>>
    ELSE LET combination == all_combinations[Len(all_combinations)]
             before == ValidateCombinations_keepflagged(
                           SubSeq(all_combinations, 1, Len(all_combinations) - 1))
             full == full_schedule(combination)
         IN Append(before, <<calculate_gaps(SortedInPlace(full)), combination>>)

\* steps 5 and 6: the combinations without conflict, each with its score, in
\* the order of all_combinations
RECURSIVE ValidateCombinations(_)
ValidateCombinations(all_combinations) ==
    IF all_combinations = <<>> THEN <<>>
    ELSE LET combination == all_combinations[Len(all_combinations)]
             before == ValidateCombinations(
                           SubSeq(all_combinations, 1, Len(all_combinations) - 1))
             full == full_schedule(combination)
         IN IF ~check_conflict(full)
            THEN Append(before, <<calculate_gaps(SortedInPlace(full)), combination>>)
            ELSE before

\* InsertByScore of a sort that is not stable: equal scores swap
RECURSIVE InsertByScore_unstable(_, _)
InsertByScore_unstable(x, s) ==
    IF s = <<>> THEN <<x>>
    ELSE IF s[Len(s)][1] < x[1] THEN Append(s, x)
    ELSE Append(InsertByScore_unstable(x, SubSeq(s, 1, Len(s) - 1)), s[Len(s)])

RECURSIVE InsertByScore(_, _)
InsertByScore(x, s) ==
    IF s = <<>> THEN <<x>>
    ELSE IF s[Len(s)][1] <= x[1] THEN Append(s, x)
    ELSE Append(InsertByScore(x, SubSeq(s, 1, Len(s) - 1)), s[Len(s)])

\* valid_schedules.sort(key=lambda x: x[0]): a stable sort
RECURSIVE SortByScore(_)
SortByScore(s) ==
    IF s = <<>> THEN <<>>
    ELSE InsertByScore(s[Len(s)], SortByScore(SubSeq(s, 1, Len(s) - 1)))

\* find_schedules(df_processed, subject_list, turno_filter)
\* find_schedules without the guard of line 220
find_schedules_unguarded(df, subjects, turno) ==
    LET invalidas == materias_invalidas(df, subjects)
        sin_grupos == materias_sin_grupos_en_turno(df, subjects, turno)
        groups == all_subject_groups(df, subjects, turno)
    IN IF invalidas # <<>>
       THEN [valid_schedules |-> None, error_list |-> invalidas,
             error_type |-> "INVALID_NAME"]
       ELSE IF sin_grupos # <<>>
       THEN [valid_schedules |-> None, error_list |-> sin_grupos,
             error_type |-> "NO_GROUPS_IN_SHIFT"]
       ELSE [valid_schedules |-> SortByScore(ValidateCombinations(Product(groups))),
             error_list |-> None, error_type |-> NoErrorType]

find_schedules(df, subjects, turno) ==
    LET invalidas == materias_invalidas(df, subjects)
        sin_grupos == materias_sin_grupos_en_turno(df, subjects, turno)
        groups == all_subject_groups(df, subjects, turno)
    IN IF invalidas # <<>>
       THEN [valid_schedules |-> None, error_list |-> invalidas,
             error_type |-> "INVALID_NAME"]
       ELSE IF sin_grupos # <<>>
       THEN [valid_schedules |-> None, error_list |-> sin_grupos,
             error_type |-> "NO_GROUPS_IN_SHIFT"]
       ELSE IF groups = <<>> \/ Len(groups) # Len(subjects)
       THEN [valid_schedules |-> <<>>, error_list |-> None,
             error_type |-> NoErrorType]
       ELSE [valid_schedules |-> SortByScore(ValidateCombinations(Product(groups))),
             error_list |-> None, error_type |-> NoErrorType]

(***************************************************************************)
(* The search applied to bounded catalogs                                  *)
(***************************************************************************)
\* most rows of a catalog
MaxRows == 3
\* most names of a subject list
MaxSubjects == 2

TurnoFilters == {"Mixto", "Matutino (M)", "Tarde (T)"}
SearchSubjects == {"A", "B"}
\* weekly slots: the second overlaps the first and ends where the third
\* starts, the third and the fourth begin 30 minutes after the first ends;
\* the last is a reversed pair, which the catalog construction lets through
SearchSlots ==
    {[Turno |-> "M", Dia |-> "Lunes", Inicio_Min |-> 480, Fin_Min |-> 570],
     [Turno |-> "M", Dia |-> "Lunes", Inicio_Min |-> 540, Fin_Min |-> 600],
     [Turno |-> "T", Dia |-> "Lunes", Inicio_Min |-> 600, Fin_Min |-> 660],
     [Turno |-> "T", Dia |-> "Martes", Inicio_Min |-> 600, Fin_Min |-> 660],
     [Turno |-> "M", Dia |-> "Lunes", Inicio_Min |-> 600, Fin_Min |-> 540]}
\* subject A is offered in up to two groups, subject B in one
SearchGroups == {<<"A", 1>>, <<"A", 2>>, <<"B", 1>>}
SearchRows ==
    {[Semestre |-> 1, Materia |-> mg[1], Grupo |-> mg[2], Turno |-> t.Turno,
      Dia |-> t.Dia, Inicio_Min |-> t.Inicio_Min, Fin_Min |-> t.Fin_Min] :
        mg \in SearchGroups, t \in SearchSlots}

\* position of a weekday in the list days
DayIndex(d) == CHOOSE k \in DOMAIN days : days[k] = d

\* the melt puts all rows of a weekday before those of the next weekday
DayMajor(df) ==
    \A i, j \in DOMAIN df : i < j => DayIndex(df[i].Dia) <= DayIndex(df[j].Dia)

Catalogs == {df \in SeqsUpTo(SearchRows, MaxRows) : DayMajor(df)}

Init ==
    /\ pc = "loaded"
    /\ file = None
    /\ df_processed \in Catalogs
    /\ IdleSched
    /\ IdleSearch
    /\ IdleOpt

\* a call find_schedules(df_processed, subject_list, turno_filter)
FindSchedules ==
    /\ pc = "loaded"
    /\ \E subjects \in SeqsUpTo(SearchSubjects, MaxSubjects), turno \in TurnoFilters :
           /\ subject_list' = subjects
           /\ turno_filter' = turno
           /\ result' = find_schedules(df_processed, subjects, turno)
    /\ pc' = "searched"
    /\ UNCHANGED <<loadVars, schedVars, optVars>>

Next == FindSchedules

Spec == Init /\ [][Next]_vars

(***************************************************************************)
(* get_available_optatives and the elective optimizer of run_app           *)
(***************************************************************************)
TOP_N_FLEXIBLES == 8
\* min_value and max_value of the number_input for the elective count
MinCount == 1
MaxCount == 5
\* most subjects of one search: the limit checked before the button acts
MaxTotal == 7

\* the subject names of the catalogs below, in str order (groupby sorts its keys)
SubjectNames ==
    <<"A", "B", "C", "E01", "E02", "E03", "E04", "E05", "E06", "E07", "E08",
      "E09", "E10", "E11", "E12">>
NameOrd(name) == CHOOSE k \in DOMAIN SubjectNames : SubjectNames[k] = name

\* most elective names whose tie orders are all explored
MaxShuffled == 3

\* df_filtered.groupby('Materia')['Grupo'].nunique(): subject -> group count
flexibility(df, turno) ==
    LET df_filtered == SelectSeq(df, LAMBDA r : r.Semestre = 0 /\ TurnoOk(r, turno))
        rows_of(name) == {k \in DOMAIN df_filtered : df_filtered[k].Materia = name}
    IN [name \in {df_filtered[k].Materia : k \in DOMAIN df_filtered} |->
           Cardinality({df_filtered[k].Grupo : k \in rows_of(name)})]

RECURSIVE InsertByCount(_, _, _)
InsertByCount(name, ord, flex) ==
    IF ord = <<>> THEN <<name>>
    ELSE IF flex[ord[Len(ord)]] >= flex[name] THEN Append(ord, name)
    ELSE Append(InsertByCount(name, SubSeq(ord, 1, Len(ord) - 1), flex), ord[Len(ord)])

\* the names of list, highest count first, equal counts in list order
RECURSIVE SortByCount(_, _)
SortByCount(list, flex) ==
    IF list = <<>> THEN <<>>
    ELSE InsertByCount(list[Len(list)],
                       SortByCount(SubSeq(list, 1, Len(list) - 1), flex), flex)

\* get_available_optatives(df, turno): the index of the returned Series.
\* sort_values(ascending=False) uses an unstable sort, so subjects of equal
\* count may come in any order: the set of the orders it may return (all of
\* them up to MaxShuffled names; beyond, key order and reverse key order)
get_available_optatives(df, turno) ==
    LET flex == flexibility(df, turno)
        names == DOMAIN flex
        n == Cardinality(names)
        by_key == SelectSeq(SubjectNames, LAMBDA name : name \in names)
        reversed == [k \in 1..n |-> by_key[n + 1 - k]]
    IN IF n <= MaxShuffled
       THEN {ord \in [1..n -> names] :
                /\ \A a, b \in 1..n : ord[a] = ord[b] => a = b
                /\ \A a, b \in 1..n : a < b => flex[ord[a]] >= flex[ord[b]]}
       ELSE {SortByCount(by_key, flex), SortByCount(reversed, flex)}

\* Series.head(n) with one element more
head_plus_one(ord, n) == SubSeq(ord, 1, IF Len(ord) < n + 1 THEN Len(ord) ELSE n + 1)

\* Series.head(n)
head(ord, n) == SubSeq(ord, 1, IF Len(ord) < n THEN Len(ord) ELSE n)

\* itertools.combinations(list, k): the k-subsets by position, in
\* lexicographic order of the positions
RECURSIVE combinations(_, _)
combinations(list, k) ==
    IF k = 0 THEN << <<>> >>
    ELSE IF Len(list) < k THEN <<>>
    ELSE LET with_first == combinations(Tail(list), k - 1)
         IN [j \in DOMAIN with_first |-> <<Head(list)>> \o with_first[j]]
            \o combinations(Tail(list), k)

\* the truth value of a list or tuple that may be None
Truthy(x) == x # None /\ x # <<>>

\* step 6 taking a schedule that only equals the best score
IsBetter_or_equal(score, best_score) == score <= best_score

\* step 6: score < best_overall_score
IsBetter(score, best_score) == score < best_score

(***************************************************************************)
(* The optimizer applied to bounded catalogs                               *)
(***************************************************************************)
\* most electives of a catalog
MaxElectives == 9
\* most electives of a catalog whose offerings vary freely
MaxFreeElectives == 3

\* what an elective offers: its groups, each with one weekly slot
OptProfiles ==
    <<  \* 30 minutes after subject A
       <<[Grupo |-> 1, Turno |-> "T", Dia |-> "Lunes", Inicio_Min |-> 600, Fin_Min |-> 660]>>,
        \* on another day
       <<[Grupo |-> 1, Turno |-> "T", Dia |-> "Martes", Inicio_Min |-> 600, Fin_Min |-> 660]>>,
        \* at the time of subject A
       <<[Grupo |-> 1, Turno |-> "M", Dia |-> "Lunes", Inicio_Min |-> 480, Fin_Min |-> 570]>>,
        \* two groups, one in each shift
       <<[Grupo |-> 1, Turno |-> "M", Dia |-> "Lunes", Inicio_Min |-> 480, Fin_Min |-> 570],
         [Grupo |-> 2, Turno |-> "T", Dia |-> "Lunes", Inicio_Min |-> 600, Fin_Min |-> 660]>> >>

\* the mandatory subjects of every catalog: A, B (semester 1) and C (semester 2)
OptMandatoryRows ==
    <<[Semestre |-> 1, Materia |-> "A", Grupo |-> 1, Turno |-> "M", Dia |-> "Lunes",
       Inicio_Min |-> 480, Fin_Min |-> 570],
      [Semestre |-> 1, Materia |-> "B", Grupo |-> 1, Turno |-> "M", Dia |-> "Miercoles",
       Inicio_Min |-> 480, Fin_Min |-> 570],
      [Semestre |-> 2, Materia |-> "C", Grupo |-> 1, Turno |-> "M", Dia |-> "Jueves",
       Inicio_Min |-> 480, Fin_Min |-> 570]>>

ElectiveName(k) == SubjectNames[3 + k]

ElectiveRows(k, profile) ==
    [g \in DOMAIN profile |->
        [Semestre |-> 0, Materia |-> ElectiveName(k), Grupo |-> profile[g].Grupo,
         Turno |-> profile[g].Turno, Dia |-> profile[g].Dia,
         Inicio_Min |-> profile[g].Inicio_Min, Fin_Min |-> profile[g].Fin_Min]]

\* the rows of the weekday columns one after the other, as the melt leaves them
RECURSIVE ByDay(_, _)
ByDay(rows, d) ==
    IF d > Len(days) THEN <<>>
    ELSE SelectSeq(rows, LAMBDA r : r.Dia = days[d]) \o ByDay(rows, d + 1)

\* the catalog in which elective k offers OptProfiles[assign[k]]
OptCatalog(assign) ==
    ByDay(OptMandatoryRows
              \o ConcatAll([k \in DOMAIN assign |-> ElectiveRows(k, OptProfiles[assign[k]])]),
          1)

\* up to MaxFreeElectives electives with any offerings; more electives, up
\* to MaxElectives, with the offerings in turn
OptCatalogs ==
    {OptCatalog(assign) : assign \in SeqsUpTo(DOMAIN OptProfiles, MaxFreeElectives)}
    \cup {OptCatalog([k \in 1..n |-> 1 + (k % Len(OptProfiles))]) :
             n \in (MaxFreeElectives + 1)..MaxElectives}

\* what the multiselects may hold: subjects of semesters 1-9 that have a row
\* under the chosen shift
MandatoryChoices(df, turno) ==
    {mandatory \in {<<>>, <<"A">>, <<"A", "B", "C">>} :
        \A k \in DOMAIN mandatory :
            \E r \in DOMAIN df :
                /\ df[r].Materia = mandatory[k]
                /\ df[r].Semestre # 0
                /\ TurnoOk(df[r], turno)}

\* the mode selector exists only when the catalog has a semester 0 (line 383)
HasOptatives(df) == \E r \in DOMAIN df : df[r].Semestre = 0

InitOpt ==
    /\ pc = "loaded"
    /\ file = None
    /\ df_processed \in OptCatalogs
    /\ IdleSched
    /\ IdleSearch
    /\ IdleOpt

\* the button "Encontrar mejor horario" in mode Inteligente, more than
\* MaxTotal subjects selected: no search
LimitExceeded ==
    /\ pc = "loaded"
    /\ HasOptatives(df_processed)
    /\ \E turno \in TurnoFilters, count \in MinCount..MaxCount :
         \E mandatory \in MandatoryChoices(df_processed, turno) :
           /\ Len(mandatory) + count > MaxTotal
           /\ turno_filter' = turno
           /\ mandatory_subjects' = mandatory
           /\ num_to_select' = count
    /\ pc' = "limit_exceeded"
    /\ UNCHANGED <<loadVars, schedVars, subject_list, result,
                   top_flexible_optatives, optativa_combinations, processed,
                   best_overall_schedule, best_overall_score, searches>>

\* the same button within the limit: steps 1 and 2 of the optimizer
StartOptimizer ==
    /\ pc = "loaded"
    /\ HasOptatives(df_processed)
    /\ \E turno \in TurnoFilters, count \in MinCount..MaxCount :
         \E mandatory \in MandatoryChoices(df_processed, turno),
            optativas_flex_data \in get_available_optatives(df_processed, turno) :
           LET top == head(optativas_flex_data, TOP_N_FLEXIBLES)
           IN /\ Len(mandatory) + count <= MaxTotal
              /\ turno_filter' = turno
              /\ mandatory_subjects' = mandatory
              /\ num_to_select' = count
              /\ top_flexible_optatives' = top
              /\ IF Len(top) < count
                 THEN /\ pc' = "insufficient"
                      /\ optativa_combinations' = <<>>
                 ELSE /\ pc' = "loop"
                      /\ optativa_combinations' = combinations(top, count)
    /\ best_overall_schedule' = None
    /\ best_overall_score' = Inf
    /\ processed' = 0
    /\ searches' = <<>>
    /\ UNCHANGED <<loadVars, schedVars, subject_list, result>>

\* one iteration of the loop over optativa_combinations (steps 3 to 6)
LoopStep ==
    /\ pc = "loop"
    /\ processed < Len(optativa_combinations)
    /\ LET opt_combo == optativa_combinations[processed + 1]
           current_subject_list == mandatory_subjects \o opt_combo
           found == find_schedules(df_processed, current_subject_list, turno_filter)
           schedules == found.valid_schedules
           best_schedule_for_this_combo == IF Truthy(schedules) THEN schedules[1] ELSE None
       IN /\ subject_list' = current_subject_list
          /\ result' = found
          /\ searches' = Append(searches, <<current_subject_list, best_schedule_for_this_combo>>)
          /\ IF Truthy(schedules) /\ IsBetter(schedules[1][1], best_overall_score)
             THEN /\ best_overall_score' = schedules[1][1]
                  /\ best_overall_schedule' = schedules[1]
             ELSE UNCHANGED <<best_overall_score, best_overall_schedule>>
    /\ processed' = processed + 1
    /\ UNCHANGED <<pc, loadVars, schedVars, turno_filter, mandatory_subjects,
                   num_to_select, top_flexible_optatives, optativa_combinations>>

\* step 7: the best schedule is shown, or the warning that there is none
FinishOptimizer ==
    /\ pc = "loop"
    /\ processed = Len(optativa_combinations)
    /\ pc' = IF best_overall_schedule # None THEN "success" ELSE "warning"
    /\ UNCHANGED <<loadVars, schedVars, searchVars, optVars>>

NextOpt == LimitExceeded \/ StartOptimizer \/ LoopStep \/ FinishOptimizer

SpecOpt == InitOpt /\ [][NextOpt]_vars

(***************************************************************************)
(* Properties of check_conflict and calculate_gaps                         *)
(***************************************************************************)
WellFormed(s) == \A i \in DOMAIN s : s[i].Inicio_Min < s[i].Fin_Min

\* the minutes of the half-open interval [Inicio_Min, Fin_Min)
Minutes(c) == c.Inicio_Min .. (c.Fin_Min - 1)

Overlap(a, b) == a.Dia = b.Dia /\ Minutes(a) \cap Minutes(b) # {}

SomeOverlap(s) == \E i, j \in DOMAIN s : i # j /\ Overlap(s[i], s[j])

\* every reordering of the list s
Reorderings(s) ==
    LET n == Len(s)
        Bij == {f \in [1..n -> 1..n] : \A i, j \in 1..n : f[i] = f[j] => i = j}
    IN {[i \in 1..n |-> s[f[i]]] : f \in Bij}

\* no two entries of the list share both the day and the start minute
DistinctStarts(s) ==
    \A i, j \in DOMAIN s :
        i # j => ~(s[i].Dia = s[j].Dia /\ s[i].Inicio_Min = s[j].Inicio_Min)

\* C1: for a list whose sessions all have start < end, check_conflict returns
\* FALSE exactly when no two distinct entries share a day with overlapping
\* half-open intervals; adjacent comparison after the sort misses nothing and
\* a session starting when the previous one ends is no conflict.
C1_ConflictIffOverlap ==
    (pc \in {"checked", "done"} /\ WellFormed(schedule_in))
        => ((conflict = FALSE) <=> ~SomeOverlap(schedule_in))

\* three same-day well-formed sessions: the first and the last of the sorted
\* list overlap, the last starts exactly when the middle one ends
C1_Witness ==
    /\ pc = "checked"
    /\ WellFormed(schedule_in)
    /\ Len(schedule) = 3
    /\ schedule # schedule_in
    /\ Overlap(schedule[1], schedule[3])
    /\ schedule[2].Dia = schedule[3].Dia
    /\ schedule[3].Inicio_Min = schedule[2].Fin_Min
    /\ conflict = TRUE

\* C8 as stated: calculate_gaps returns the same total for every reordering
\* of every list, and 0 for every list with at most one session.  Only lists
\* of sessions with start < end are looked at here, so that a violation owes
\* nothing to empty or reversed intervals.
C8_GapsAnyOrder ==
    (pc \in {"scored", "done"} /\ WellFormed(schedule_in))
        => /\ \A p \in Reorderings(schedule_in) : calculate_gaps(p) = gaps
           /\ Len(schedule_in) <= 1 => gaps = 0

\* C8 amended: calculate_gaps returns the same total for every reordering of
\* every list in which no two entries share both day and start minute, and 0
\* for every list with at most one session.
C8_GapsAnyOrderDistinctStarts ==
    pc \in {"scored", "done"}
        => /\ DistinctStarts(schedule_in)
                => \A p \in Reorderings(schedule_in) : calculate_gaps(p) = gaps
           /\ Len(schedule_in) <= 1 => gaps = 0

\* an unsorted list of three sessions with distinct starts and a positive total
C8_Witness ==
    /\ pc = "scored"
    /\ Len(schedule_in) = 3
    /\ WellFormed(schedule_in)
    /\ DistinctStarts(schedule_in)
    /\ schedule # schedule_in
    /\ gaps > 0

(***************************************************************************)
(* Properties of find_schedules                                            *)
(***************************************************************************)
Searched == pc = "searched"
Passed == Searched /\ result.error_type = NoErrorType
Returned == result.valid_schedules

\* the cross product of the per-subject group lists, as the set of choices
\* of one group option per position of the subject list
CrossProduct ==
    LET opts(i) == Range(subject_options(df_processed, subject_list[i], turno_filter))
        n == Len(subject_list)
    IN {c \in [1..n -> UNION {opts(i) : i \in 1..n}] : \A i \in 1..n : c[i] \in opts(i)}

ExactlyTheUnflagged ==
    /\ \A k \in DOMAIN Returned :
           /\ Returned[k][2] \in CrossProduct
           /\ ~check_conflict(full_schedule(Returned[k][2]))
    /\ \A c \in CrossProduct :
           ~check_conflict(full_schedule(c))
               => \E k \in DOMAIN Returned : Returned[k][2] = c
    /\ \A k1, k2 \in DOMAIN Returned : Returned[k1][2] = Returned[k2][2] => k1 = k2

\* C2 as stated: when the search passes validation, the returned list holds
\* exactly the elements of the cross product of the per-subject group lists
\* that check_conflict does not flag, each once.
C2_ExactlyUnflagged == Passed => ExactlyTheUnflagged

\* C2 amended: the same, when the subject list is not empty.
C2_ExactlyUnflaggedNonEmpty ==
    (Passed /\ subject_list # <<>>) => ExactlyTheUnflagged

\* two distinct subjects: one pairing of their groups is discarded for its
\* conflict, another is returned
C2_Witness ==
    /\ Passed
    /\ Len(subject_list) = 2
    /\ subject_list[1] # subject_list[2]
    /\ Len(Returned) >= 1
    /\ Cardinality(CrossProduct) > Len(Returned)

\* first catalog row of a group of a subject
FirstRowInCatalog(name, grupo) ==
    CHOOSE i \in DOMAIN df_processed :
        /\ df_processed[i].Materia = name /\ df_processed[i].Grupo = grupo
        /\ \A j \in 1..(i - 1) :
               ~(df_processed[j].Materia = name /\ df_processed[j].Grupo = grupo)

\* first catalog row of a group of a subject among the rows the filter keeps
FirstRowUnderFilter(name, grupo) ==
    CHOOSE i \in DOMAIN df_processed :
        /\ df_processed[i].Materia = name /\ df_processed[i].Grupo = grupo
        /\ TurnoOk(df_processed[i], turno_filter)
        /\ \A j \in 1..(i - 1) :
               ~(/\ df_processed[j].Materia = name /\ df_processed[j].Grupo = grupo
                 /\ TurnoOk(df_processed[j], turno_filter))

\* combination a is generated before combination b: at the first position
\* where they differ, a's group appears first (the last subject varies fastest)
GeneratedBefore(a, b, FirstRow(_, _)) ==
    \E p \in DOMAIN a :
        /\ \A q \in 1..(p - 1) : a[q] = b[q]
        /\ FirstRow(a[p].Materia, a[p].Grupo) < FirstRow(b[p].Materia, b[p].Grupo)

RankedBy(FirstRow(_, _)) ==
    \A i, j \in DOMAIN Returned :
        i < j => \/ Returned[i][1] < Returned[j][1]
                 \/ /\ Returned[i][1] = Returned[j][1]
                    /\ GeneratedBefore(Returned[i][2], Returned[j][2], FirstRow)

\* C3 as stated: the returned list is sorted ascending by idle_score and
\* entries of equal score keep the order of generation, the groups of each
\* subject taken in order of first appearance in the catalog.
C3_RankedCatalogOrder == Passed => RankedBy(FirstRowInCatalog)

\* C3 amended: the same, the groups of each subject taken in order of first
\* appearance among the catalog rows that the shift filter keeps.  The result
\* is a function of catalog, subject list and filter, so equal calls agree.
C3_RankedFilteredOrder == Passed => RankedBy(FirstRowUnderFilter)

\* under a shift filter, two entries of equal score whose groups appear in
\* the other order in the unfiltered catalog
C3_Witness ==
    /\ Passed
    /\ turno_filter # "Mixto"
    /\ Len(Returned) = 2
    /\ Returned[1][1] = Returned[2][1]
    /\ GeneratedBefore(Returned[1][2], Returned[2][2], FirstRowUnderFilter)
    /\ GeneratedBefore(Returned[2][2], Returned[1][2], FirstRowInCatalog)

\* the requested names at the positions P, in request order
Requested(P(_)) ==
    LET n == Cardinality({i \in DOMAIN subject_list : P(i)})
        \* the position of the k-th name that satisfies P
        pos(k) == CHOOSE i \in DOMAIN subject_list :
                      P(i) /\ Cardinality({j \in 1..i : P(j)}) = k
    IN [k \in 1..n |-> subject_list[pos(k)]]

Absent(i) == \A r \in DOMAIN df_processed : df_processed[r].Materia # subject_list[i]

\* the shift a Morning / Afternoon filter selects
SelectedTurno == IF turno_filter = "Matutino (M)" THEN "M" ELSE "T"

NoShift(i) ==
    \A r \in DOMAIN df_processed :
        ~(df_processed[r].Materia = subject_list[i]
            /\ df_processed[r].Turno = SelectedTurno)

\* C4: if some requested name occurs nowhere in the catalog, the search
\* returns INVALID_NAME with exactly the absent requested names, all of them
\* in request order, and no schedule list, also when an existing requested
\* subject has no group under the shift filter.
C4_UnknownSubject ==
    (Searched /\ \E i \in DOMAIN subject_list : Absent(i))
        => /\ result.error_type = "INVALID_NAME"
           /\ result.error_list = Requested(Absent)
           /\ result.valid_schedules = None

\* an absent name requested after an existing subject that has no group
\* under the filter
C4_Witness ==
    /\ Searched
    /\ Len(subject_list) = 2
    /\ turno_filter # "Mixto"
    /\ ~Absent(1) /\ NoShift(1)
    /\ Absent(2)
    /\ result.error_type = "INVALID_NAME"

\* C5: the search returns NO_GROUPS_IN_SHIFT iff every requested subject is
\* in the catalog and, under a Morning / Afternoon filter, some requested
\* subject has no session of the selected shift; it then carries exactly
\* those subjects and no schedule list.  Never under the filter Mixto.
C5_NoGroupsForShift ==
    Searched
        => /\ (result.error_type = "NO_GROUPS_IN_SHIFT")
                <=> /\ \A i \in DOMAIN subject_list : ~Absent(i)
                    /\ turno_filter # "Mixto"
                    /\ \E i \in DOMAIN subject_list : NoShift(i)
           /\ (result.error_type = "NO_GROUPS_IN_SHIFT")
                => /\ result.error_list = Requested(NoShift)
                   /\ result.valid_schedules = None
           /\ turno_filter = "Mixto" => result.error_type # "NO_GROUPS_IN_SHIFT"

\* two distinct subjects requested, one with a group under the filter and
\* one without
C5_Witness ==
    /\ Searched
    /\ turno_filter = "Tarde (T)"
    /\ Len(subject_list) = 2
    /\ ~NoShift(1) /\ NoShift(2)
    /\ result.error_type = "NO_GROUPS_IN_SHIFT"
    /\ result.error_list = <<subject_list[2]>>

\* the sum of next.start - prev.end over a set of pairs <<prev, next>> of
\* positions of a list of sessions
RECURSIVE SumIdle(_, _)
SumIdle(pairs, sessions) ==
    IF pairs = {} THEN 0
    ELSE LET p == CHOOSE q \in pairs : TRUE
         IN sessions[p[2]].Inicio_Min - sessions[p[1]].Fin_Min
              + SumIdle(pairs \ {p}, sessions)

\* the sum, over each day and each pair of sessions consecutive by start
\* time on that day, of next.start - prev.end
IdleBetweenConsecutive(sessions) ==
    LET SameDay(i, j) == sessions[i].Dia = sessions[j].Dia
        \* by start time; sessions that start together, in list order
        Earlier(i, j) ==
            /\ SameDay(i, j)
            /\ \/ sessions[i].Inicio_Min < sessions[j].Inicio_Min
               \/ sessions[i].Inicio_Min = sessions[j].Inicio_Min /\ i < j
        Consecutive ==
            {p \in (DOMAIN sessions) \X (DOMAIN sessions) :
                /\ Earlier(p[1], p[2])
                /\ ~\E k \in DOMAIN sessions : Earlier(p[1], k) /\ Earlier(k, p[2])}
    IN SumIdle(Consecutive, sessions)

\* C9: the idle_score of every returned schedule is non-negative and equals
\* the sum, over each day and each pair of sessions consecutive by start time
\* on that day, of next.start - prev.end; pairs on different days add nothing.
C9_IdleScore ==
    Passed
        => \A k \in DOMAIN Returned :
               /\ Returned[k][1] >= 0
               /\ Returned[k][1] = IdleBetweenConsecutive(full_schedule(Returned[k][2]))

\* two subjects: a returned schedule of score 30 with sessions on two days,
\* the other day's session starting after the first day's session ends
C9_Witness ==
    /\ Passed
    /\ Len(subject_list) = 2
    /\ subject_list[1] # subject_list[2]
    /\ \E k \in DOMAIN Returned :
           LET sessions == full_schedule(Returned[k][2])
           IN /\ Returned[k][1] = 30
              /\ Len(sessions) = 3
              /\ \E i, j \in DOMAIN sessions :
                     /\ sessions[i].Dia # sessions[j].Dia
                     /\ sessions[j].Inicio_Min > sessions[i].Fin_Min

(***************************************************************************)
(* Properties of the elective optimizer                                    *)
(***************************************************************************)
OptimizerRan == pc \in {"insufficient", "loop", "success", "warning"}
InLoop == pc \in {"loop", "success", "warning"}
Ended == pc \in {"success", "warning"}

\* the first entry of the search for the j-th subset, None if it has none
BestOf(j) ==
    LET schedules ==
            find_schedules(df_processed,
                           mandatory_subjects \o optativa_combinations[j],
                           turno_filter).valid_schedules
    IN IF schedules = None \/ schedules = <<>> THEN None ELSE schedules[1]

\* the processed subsets whose search result is non-empty
NonEmpty == {j \in DOMAIN searches : searches[j][2] # None}
BestScore(j) == searches[j][2][1]
IsMinimum(j) == \A l \in NonEmpty : BestScore(j) <= BestScore(l)
Earliest == CHOOSE j \in NonEmpty : IsMinimum(j) /\ \A l \in NonEmpty : IsMinimum(l) => j <= l

\* C6: after any prefix of the subsets has been processed, the tracked best
\* schedule is the first entry of the search of the earliest processed
\* subset whose best score is the minimum over the processed subsets with a
\* non-empty result; the optimizer ends with that entry, and with None
\* (the warning) exactly when no search was non-empty
C6_BestOfEarliestMinimum ==
    InLoop =>
        /\ Len(searches) = processed
        /\ \A j \in 1..processed :
               searches[j] = <<mandatory_subjects \o optativa_combinations[j], BestOf(j)>>
        /\ IF NonEmpty = {}
           THEN best_overall_schedule = None
           ELSE /\ best_overall_schedule = searches[Earliest][2]
                /\ best_overall_score = BestScore(Earliest)
        /\ Ended => processed = Len(optativa_combinations)
        /\ pc = "warning" <=> (Ended /\ NonEmpty = {})
        /\ pc = "success" <=> (Ended /\ NonEmpty # {})

\* the optimizer has ended on the second of three non-empty searches: the
\* first scores higher, the third ties with the second on another schedule
C6_Witness ==
    /\ pc = "success"
    /\ \E i, j, l \in NonEmpty :
          /\ i < j /\ j < l
          /\ BestScore(i) > BestScore(j)
          /\ BestScore(l) = BestScore(j)
          /\ searches[l][2] # searches[j][2]
          /\ best_overall_schedule = searches[j][2]

\* the electives available under the shift filter, and their group counts
Available ==
    {df_processed[r].Materia :
        r \in {q \in DOMAIN df_processed :
                 /\ df_processed[q].Semestre = 0
                 /\ \/ turno_filter = "Mixto"
                    \/ turno_filter = "Matutino (M)" /\ df_processed[q].Turno = "M"
                    \/ turno_filter = "Tarde (T)" /\ df_processed[q].Turno = "T"}}
GroupCount(name) ==
    Cardinality({df_processed[r].Grupo :
        r \in {q \in DOMAIN df_processed :
                 /\ df_processed[q].Semestre = 0
                 /\ df_processed[q].Materia = name
                 /\ \/ turno_filter = "Mixto"
                    \/ turno_filter = "Matutino (M)" /\ df_processed[q].Turno = "M"
                    \/ turno_filter = "Tarde (T)" /\ df_processed[q].Turno = "T"}})

RECURSIVE Binom(_, _)
Binom(n, k) ==
    IF k = 0 THEN 1
    ELSE IF n < k THEN 0
    ELSE Binom(n - 1, k - 1) + Binom(n - 1, k)

\* the calls of search made so far for the set S of electives: mandatory
\* subjects first, then the members of S, each once
CallsFor(S) ==
    {j \in DOMAIN searches :
        LET call == searches[j][1]
            m == Len(mandatory_subjects)
        IN /\ Len(call) = m + Cardinality(S)
           /\ SubSeq(call, 1, m) = mandatory_subjects
           /\ {call[p] : p \in (m + 1)..Len(call)} = S}

\* C7: with n electives available under the shift filter and k requested,
\* the optimizer reports too few electives iff n < k; otherwise the pool is
\* min(n, 8) electives of highest group count and search is called
\* C(min(n, 8), k) times, once for each k-subset of the pool, with the
\* mandatory subjects followed by the subset
C7_SubsetsOfTopElectives ==
    OptimizerRan =>
        LET n == Cardinality(Available)
            k == num_to_select
            t == IF n < 8 THEN n ELSE 8
            pool == Range(top_flexible_optatives)
        IN /\ k \in 1..5
           /\ pc = "insufficient" <=> n < k
           /\ Len(top_flexible_optatives) = t
           /\ Cardinality(pool) = t
           /\ pool \subseteq Available
           /\ \A a \in pool, b \in Available \ pool : GroupCount(a) >= GroupCount(b)
           /\ pc = "insufficient" => searches = <<>>
           /\ InLoop =>
                /\ Len(searches) <= Binom(t, k)
                /\ \A j \in DOMAIN searches :
                       LET S == {searches[j][1][p] :
                                   p \in (Len(mandatory_subjects) + 1)..Len(searches[j][1])}
                       IN S \subseteq pool /\ Cardinality(S) = k /\ CallsFor(S) = {j}
           /\ Ended =>
                /\ Len(searches) = Binom(t, k)
                /\ \A S \in SUBSET pool : Cardinality(S) = k => Cardinality(CallsFor(S)) = 1

\* nine electives are available, the pool is cut to eight, and the 28 pairs
\* have been searched after the mandatory subject
C7_Witness ==
    /\ Ended
    /\ Cardinality(Available) = 9
    /\ num_to_select = 2
    /\ mandatory_subjects = <<"A">>
    /\ Len(searches) = 28

(***************************************************************************)
(* Properties of a search for one subject                                  *)
(***************************************************************************)
ShiftKept(r) ==
    \/ turno_filter = "Mixto"
    \/ turno_filter = "Matutino (M)" /\ r.Turno = "M"
    \/ turno_filter = "Tarde (T)" /\ r.Turno = "T"

\* the distinct groups of a subject that have a row under the shift filter
GroupsUnderFilter(name) ==
    {df_processed[r].Grupo :
        r \in {q \in DOMAIN df_processed :
                 df_processed[q].Materia = name /\ ShiftKept(df_processed[q])}}

\* all the catalog rows of a group of a subject, of either shift
RowsOfGroup(name, grupo) ==
    SelectSeq(df_processed, LAMBDA r : r.Materia = name /\ r.Grupo = grupo)

SingleSubject == Passed /\ Len(subject_list) = 1

\* the entries of the result that choose group g
EntriesOf(g) == {k \in DOMAIN Returned : Returned[k][2][1].Grupo = g}

\* C11 as stated: a search for one existing subject returns exactly one
\* entry per distinct group of the subject under the shift filter, whatever
\* the sessions of the groups
C11_OneEntryPerGroup ==
    SingleSubject =>
        /\ Len(Returned) = Cardinality(GroupsUnderFilter(subject_list[1]))
        /\ \A g \in GroupsUnderFilter(subject_list[1]) : Cardinality(EntriesOf(g)) = 1

\* C11 amended: exactly one entry per distinct group under the shift filter
\* whose own sessions (all its catalog rows) check_conflict does not flag,
\* and no other entry
C11_OneEntryPerUnflaggedGroup ==
    SingleSubject =>
        LET name == subject_list[1]
            kept == {g \in GroupsUnderFilter(name) : ~check_conflict(RowsOfGroup(name, g))}
        IN /\ Len(Returned) = Cardinality(kept)
           /\ \A g \in kept : Cardinality(EntriesOf(g)) = 1
           /\ \A k \in DOMAIN Returned :
                  /\ Len(Returned[k][2]) = 1
                  /\ Returned[k][2][1].Materia = name
                  /\ Returned[k][2][1].Grupo \in kept
                  /\ Returned[k][2][1].Clases = RowsOfGroup(name, Returned[k][2][1].Grupo)

\* one subject with two groups under the filter: the group whose two
\* different well-formed sessions overlap is dropped, the other is returned
C11_Witness ==
    /\ SingleSubject
    /\ Cardinality(GroupsUnderFilter(subject_list[1])) = 2
    /\ Len(Returned) = 1
    /\ \E g \in GroupsUnderFilter(subject_list[1]) :
          /\ EntriesOf(g) = {}
          /\ WellFormed(RowsOfGroup(subject_list[1], g))
          /\ SomeOverlap(RowsOfGroup(subject_list[1], g))
          /\ \A i, j \in DOMAIN RowsOfGroup(subject_list[1], g) :
                 i # j => RowsOfGroup(subject_list[1], g)[i] # RowsOfGroup(subject_list[1], g)[j]

(***************************************************************************)
(* Properties of the shift filter                                          *)
(***************************************************************************)
\* the sessions of the k-th returned schedule
SessionsOf(k) == full_schedule(Returned[k][2])

\* C12: under the filter Matutino (respectively Tarde) every session of
\* every returned schedule has shift M (respectively T), also when the
\* catalog holds rows of both shifts for one subject and group
C12_SessionsOfSelectedShift ==
    (Passed /\ turno_filter \in {"Matutino (M)", "Tarde (T)"}) =>
        \A k \in DOMAIN Returned :
            \A c \in DOMAIN SessionsOf(k) :
                SessionsOf(k)[c].Turno = (IF turno_filter = "Matutino (M)" THEN "M" ELSE "T")

\* C13: a search with an empty subject list returns an empty list and no
\* error, not the one empty combination of the cross product over zero
\* subjects, for every catalog and shift filter
C13_EmptySubjectList ==
    (Searched /\ subject_list = <<>>) =>
        /\ result.valid_schedules = <<>>
        /\ result.error_list = None
        /\ result.error_type = NoErrorType

\* the empty list has been searched under a one-shift filter in a catalog
\* that has rows, and the cross product over no subject is not empty
C13_Witness ==
    /\ Searched
    /\ subject_list = <<>>
    /\ turno_filter = "Tarde (T)"
    /\ Len(df_processed) = 2
    /\ Product(<<>>) # <<>>
    /\ result.valid_schedules = <<>>
    /\ result.error_type = NoErrorType

====
